---- MODULE Spec2Model ----
(***************************************************************************)
(* Cutting-plane drivers of the UFL solver.                                *)
(*                                                                         *)
(*   fn = "algorithm" : Gomory.solve_problem   (src/algorithm/gomory.py)   *)
(*   fn = "analysis"  : Gomory.solve_problem   (src/analysis/gomory.py)    *)
(*   fn = "simple"    : gomoryCut.solve_with_gomory_cuts                   *)
(*                                             (src/analysis/gomory_cut.py)*)
(*                                                                         *)
(* The LP/ILP engine is external: every call into it (solve, read the      *)
(* solution, add/delete a row, read basis and tableau) is an input of the  *)
(* model, drawn from the small sets below.                                 *)
(*                                                                         *)
(* Objective values are integers in units of 0.5e-6, so that the numerical *)
(* tolerance 1e-6 is 2 units and steps below the tolerance exist.          *)
(* Times are milliseconds, as accumulated by the code.                     *)
(***************************************************************************)
EXTENDS Integers, Sequences, FiniteSets, TLC

(* ---------------------------- program constants ------------------------ *)
\* config.TIME_LIMIT ("secondi" in config.py); the loop compares it with ms
TIME_LIMIT == 3600
\* 1 / config.THRESHOLD_GAP  (THRESHOLD_GAP = 0.05)
THRESHOLD_GAP_INV == 20
\* the 1e-6 added to |optimal_sol| in the loop guard, in units of 0.5e-6
LOOP_EPS == 2
\* NUMERICAL_TOLERANCE = 1e-6, in units of 0.5e-6
NUMERICAL_TOLERANCE == 2
\* the integer 1 that round() in print_solution rounds to, in units of 0.5e-6
One == 2000000
\* milliseconds in a second
MS_PER_SECOND == 1000

(* ------------------------------- bounds -------------------------------- *)
\* config.MAX_ITERATIONS (1000 in config.py), scaled down
MAX_ITERATIONS == 3
\* MAX_TOTAL_CUTS (500 in solve_problem), scaled down
MAX_TOTAL_CUTS == 3
\* largest number of fractional basic rows the solver reports in one iteration
MaxCands == 1
\* reference optima tried besides 0: a tiny one (units) and a whole cost
SmallOpt == 10
BigCost == 1
\* distance (units) of the far-from-optimal relaxation objective to the optimum
FarBelow == 400000
\* durations (ms) of one solve / one iteration
ShortStep == 800
LongStep == 4000
\* largest max_iterations argument handed to solve_with_gomory_cuts
MaxIterArg == 3
\* facilities and customers of the instance
P == 2
R == 3
\* most facilities and most customers of an instance handed to the constructor
MaxFacilities == 2
MaxCustomers == 2
\* Simplex.max_iterations (LP.py 49: 1000), scaled; size of the problems solved
SimplexMaxIterations == 1
LpVars == 2
LpRows == 2
\* the per-iteration cap on tried cuts (MAX_CUTS_PER_ITERATION = 50 in
\* solver.generate_gomory_fractional_cuts), scaled down
MAX_CUTS_PER_ITERATION == 1

\* Python's None where a number is expected (no objective is negative)
None == 0 - 1
OptVals == {0, SmallOpt, BigCost * One}
Offsets == {0 - FarBelow, 0 - 1, 0, NUMERICAL_TOLERANCE, NUMERICAL_TOLERANCE + 1}
\* objective values the LP engine may report around the reference optimum
\* (costs are non-negative, so is every objective)
SolVals(opt) == {v \in {opt + d : d \in Offsets} : v >= 0}
TimeSteps == {ShortStep, LongStep}
CutModes == {"GFC", "GMI", "BEST"}
\* a status string other than 'optimal' that still comes with an objective
OtherWithValue == "optimal with unscaled infeasibilities"
\* a status string without objective (get_objective_value raises)
Infeasible == "infeasible"

\* get_problem_data: columns and rows of the UFL formulation
n_cols_original == P + P * R
n_rows == 2 * R + P * R

Abs(x) == IF x < 0 THEN 0 - x ELSE x

\* utils.modulus
modulus(x, y) == Abs(x - y)

\* utils.get_statistics: the record of one iteration.  relative_gap stands for
\* the quotient num / (den + 1e-10); it is 0 when |optimal_sol| <= 1e-9, which
\* for whole units means optimal_sol = 0.
get_statistics(n_constraints, opt, s, s_type, st, ncuts, elapsed, iters) ==
  LET gap == modulus(s, opt)
  IN [ n_constraints |-> n_constraints,
       optimal_ilp   |-> opt,
       lp_solution   |-> s,
       is_integer    |-> s_type,
       status        |-> st,
       n_cuts        |-> ncuts,
       elapsed_time  |-> elapsed,
       gap           |-> gap,
       relative_gap  |-> IF Abs(opt) > 0
                         THEN [num |-> gap, den |-> Abs(opt)]
                         ELSE [num |-> 0, den |-> 1],
       iterations    |-> iters ]

\* print_solution's sol_type: abs(obj_value - round(obj_value)) < 1e-6
SolType(v) ==
  LET r == v % One IN r < NUMERICAL_TOLERANCE \/ One - r < NUMERICAL_TOLERANCE

\* The relative gap of the loop guard of algorithm/gomory.py is above
\* THRESHOLD_GAP:  modulus(sol, opt) / (abs(opt) + 1e-6) > 0.05
GapOpen(s, opt) == THRESHOLD_GAP_INV * modulus(s, opt) > Abs(opt) + LOOP_EPS

VARIABLES
  fn,            \* which driver runs
  pc,            \* position in the driver
  stop,          \* why the driver ended ("none" while running)
  cut_mode,
  optimal_sol,   \* reference optimum or None
  sol, sol_type, status,
  tot_stats,     \* the record list
  iteration, total_time, num_total_cuts,
  cuts_to_process, ci, cuts_added_this_iteration,
  current_sol, current_status,
  rel_gap,       \* analysis/gomory.py: the gap the loop tests
  consecutive_same_solutions,
  max_iterations, cuts_added,   \* solve_with_gomory_cuts
  rows,          \* names of the cut rows in the relaxation session
  session,       \* the relaxation session: "none" | "open" | "closed"
  ilp_session,   \* the reference ILP session of determine_optimal
  generated_cuts,\* the list a cut generator returned
  basis_order,   \* the row order in which the session reports its basis
  instance,      \* what FacilityLocationModel was constructed from
  problem_data,  \* what Solver.get_problem_data returned
  lp,            \* the A, b, c a Simplex was constructed with
  tableau,       \* Simplex.solve: the tableau
  iteration_count,
  result,        \* the SimplexResult returned
  ufl_data,      \* the data generate_ufl_instance drew
  lines,         \* the lines of the instance file
  parsed,        \* what parse_ufl_instance returned
  bodies,        \* history: executions of the loop body
  h              \* history record read by the properties only

vars == << fn, pc, stop, cut_mode, optimal_sol, sol, sol_type, status,
           tot_stats, iteration, total_time, num_total_cuts,
           cuts_to_process, ci, cuts_added_this_iteration,
           current_sol, current_status, rel_gap, consecutive_same_solutions,
           max_iterations, cuts_added, rows, session, ilp_session,
           generated_cuts, basis_order, instance, problem_data, lp, tableau,
           iteration_count, result, ufl_data, lines, parsed, bodies, h >>

\* variables of the other two drivers, untouched by algorithm/gomory.py
othervars == << rel_gap, consecutive_same_solutions, max_iterations, cuts_added >>

\* variables of analysis/LP.py and of the instance files
lpvars == << lp, tableau, iteration_count, result >>
filevars == << ufl_data, lines, parsed >>

\* variables of the functions run on their own, untouched by the drivers
purevars == << generated_cuts, basis_order, instance, problem_data, lpvars,
              filevars >>

\* the instance and its formulation
datavars == << basis_order, instance, problem_data, lpvars, filevars >>

\* history: nothing has happened yet
H0 == [ failed     |-> FALSE,  \* a solver call raised CplexError
        failKind   |-> "none", \* "initial" | "add" | "solve" | "delete"
        failStats  |-> << >>,  \* tot_stats when it did
        readFailed |-> FALSE,  \* reading a solution raised CplexError
        readStats  |-> << >>,  \* tot_stats when it first did
        rowsAtStart|-> {},     \* rows when the running iteration started
        rowsBefore |-> {},     \* rows before the running candidate was added
        fracRows   |-> 0,      \* fractional rows seen by the running iteration
        lastReject |-> << >>,  \* name of the cut rejected by the last step
        monotone   |-> TRUE,   \* no re-solve so far reported a smaller objective
        gapAtStart |-> FALSE,  \* GapOpen held when the running iteration started
        tableauLost|-> FALSE,  \* basis or tableau could not be read
        len_gmi    |-> 0,      \* cuts the GMI generator returned, running iteration
        len_gfc    |-> 0,      \* cuts the GFC generator returned, running iteration
        solvedRows |-> {},     \* rows of the relaxation at the most recent solve
        lastAccepted |-> << >>,\* objective, sol_type, status of the last accepted re-solve
        simplex    |-> << >> ] \* the solutions _solve_with_simplex returned

(* ===================== algorithm/gomory.py: solve_problem =============== *)

\* as LoopGuard, the iteration counter forgotten
LoopGuardNoIterationLimit(tt, ntc, s, opt, st, it) ==
  /\ tt <= TIME_LIMIT
  /\ ntc <= MAX_TOTAL_CUTS
  /\ GapOpen(s, opt)
  /\ st = "optimal"

\* as LoopGuard, the gap test forgotten
LoopGuardNoGap(tt, ntc, s, opt, st, it) ==
  /\ tt <= TIME_LIMIT
  /\ ntc <= MAX_TOTAL_CUTS
  /\ st = "optimal"
  /\ it <= MAX_ITERATIONS

\* The loop guard of solve_problem (gomory.py 225-227)
LoopGuard(tt, ntc, s, opt, st, it) ==
  /\ tt <= TIME_LIMIT
  /\ ntc <= MAX_TOTAL_CUTS
  /\ GapOpen(s, opt)
  /\ st = "optimal"
  /\ it <= MAX_ITERATIONS

\* Lists returned by the two generators for nf fractional basic rows: each
\* row gives at most one cut, and a CplexError inside a generator is caught
\* there and leaves the cuts built so far.
\* The 'violation' of a cut is the fractional part f_i of its basic variable,
\* the same for the GFC and the GMI cut of one row; the rows come in basis
\* order, here with growing fractional part.
GenCuts(kind, n) == [k \in 1..n |-> [kind |-> kind, row |-> k, violation |-> k]]

\* list.sort(key=violation, reverse=True): descending and stable
RECURSIVE InsertCut(_, _)
InsertCut(sorted, c) ==
  IF sorted = << >> THEN << c >>
  ELSE IF Head(sorted).violation >= c.violation
       THEN << Head(sorted) >> \o InsertCut(Tail(sorted), c)
       ELSE << c >> \o sorted

RECURSIVE SortCuts(_)
SortCuts(cuts) ==
  IF cuts = << >> THEN << >>
  ELSE InsertCut(SortCuts(SubSeq(cuts, 1, Len(cuts) - 1)), cuts[Len(cuts)])

\* as GeneratorResult, cuts built although the tableau could not be read
GeneratorResultStale(available, cuts) == cuts

\* What a generator returns (gomory.py 53-61, 89-92 and 101-109, 176-178): basis
\* status, values and tableau rows are all read before the first cut is
\* built, so a CplexError there is caught with generated_cuts still empty.
GeneratorResult(available, cuts) == IF available THEN cuts ELSE << >>

\* cut_mode 'BEST' (gomory.py 244-251): len_gfc is taken from cuts_gmi, so
\* cuts_gfc[i] is read for every i < len(cuts_gmi).
BestRaises(cuts_gmi, cuts_gfc) == Len(cuts_gmi) > Len(cuts_gfc)
BestCombine(cuts_gmi, cuts_gfc) ==
  [k \in 1..(2 * Len(cuts_gmi)) |->
     IF k % 2 = 1 THEN cuts_gmi[(k + 1) \div 2] ELSE cuts_gfc[k \div 2]]

\* as NoCuts, the test of line 254 forgotten
NoCutsIgnored(cuts) == FALSE

\* gomory.py 254: `if not cuts_to_process`
NoCuts(cuts) == cuts = << >>

\* as NoCutAdded, the test of line 295 forgotten
NoCutAddedIgnored(n) == FALSE

\* gomory.py 295: `if cuts_added_this_iteration == 0`
NoCutAdded(n) == n = 0

\* cut_name = f"{cut_mode.lower()}_{iteration}_{i}"
CutName(mode, it, i) == << mode, it, i >>

\* as CloseWith, the session left as it is
CloseWithForgotten(s) == s

\* leaving `with cplex.Cplex() as mkp` (by return, break or exception) ends
\* the session it opened
CloseWith(s) == IF s = "open" THEN "closed" ELSE s

Returned(reason) ==
  /\ pc' = "returned"
  /\ stop' = reason
  /\ session' = CloseWith(session)

Raised(reason) ==
  /\ pc' = "raised"
  /\ stop' = reason
  /\ session' = CloseWith(session)

\* as CplexFailure, the handler re-raising like the one of lines 311-313
CplexFailureReraised(kind) ==
  /\ Raised("CplexError")
  /\ h' = [h EXCEPT !.failed = TRUE, !.failKind = kind, !.failStats = tot_stats]

\* A CplexError in the body of `with cplex.Cplex() as mkp`: caught at
\* gomory.py 308-310, which returns tot_stats.
CplexFailure(kind) ==
  /\ Returned("CPLEX_ERROR")
  /\ h' = [h EXCEPT !.failed = TRUE, !.failKind = kind, !.failStats = tot_stats]

\* gomory.py 186-189, solver.py 189-212: problem data, then determine_optimal
\* opens the session of the reference ILP and loads the problem
OpenReference ==
  /\ fn = "algorithm" /\ pc = "start"
  /\ pc' = "reference"
  /\ ilp_session' = "open"
  /\ UNCHANGED othervars
  /\ UNCHANGED purevars
  /\ UNCHANGED << fn, stop, cut_mode, optimal_sol, sol, sol_type, status,
                  tot_stats, iteration, total_time, num_total_cuts,
                  cuts_to_process, ci, cuts_added_this_iteration, current_sol,
                  current_status, rows, session, bodies, h >>

\* solver.py 217-228 and gomory.py 189-194: the reference ILP is solved; its
\* optimum is returned, or None when the status is not 101/102 or a
\* CplexError was caught; either way the `with` of determine_optimal is left.
\* With an optimum solve_problem opens the session of the relaxation.
DetermineOptimal ==
  /\ fn = "algorithm" /\ pc = "reference"
  /\ ilp_session' = CloseWith(ilp_session)
  /\ \E opt \in OptVals \cup {None} :
       /\ optimal_sol' = opt
       /\ IF opt = None
          THEN Returned("NO_REFERENCE")
          ELSE /\ pc' = "initial"
               /\ stop' = stop
               /\ session' = "open"
  /\ UNCHANGED othervars
  /\ UNCHANGED purevars
  /\ UNCHANGED << fn, cut_mode, sol, sol_type, status, tot_stats, iteration,
                  total_time, num_total_cuts, cuts_to_process, ci,
                  cuts_added_this_iteration, current_sol, current_status,
                  rows, bodies, h >>

\* gomory.py 209-222: the initial relaxation and record 0
InitialRelaxation ==
  /\ fn = "algorithm" /\ pc = "initial"
  /\ \/ \* mkp.solve() raises CplexError
        /\ CplexFailure("initial")
        /\ UNCHANGED << sol, sol_type, status, tot_stats, iteration,
                        total_time, num_total_cuts >>
     \/ \* no objective: print_solution returns (None, False, status) and
        \* get_statistics computes abs(None - optimal_sol): TypeError
        /\ sol' = None /\ sol_type' = FALSE /\ status' = Infeasible
        /\ Raised("TypeError")
        /\ UNCHANGED << tot_stats, iteration, total_time, num_total_cuts, h >>
     \/ \E st \in {"optimal", OtherWithValue}, v \in SolVals(optimal_sol),
           elapsed_time \in TimeSteps :
          /\ sol' = v /\ sol_type' = SolType(v) /\ status' = st
          /\ tot_stats' = Append(tot_stats,
                 get_statistics(n_rows, optimal_sol, v, SolType(v), st, 0,
                                elapsed_time, 0))
          /\ IF st # "optimal"
             THEN /\ Returned("INITIAL_NOT_OPTIMAL")
                  /\ UNCHANGED << iteration, total_time, num_total_cuts >>
             ELSE /\ iteration' = 1
                  /\ total_time' = elapsed_time
                  /\ num_total_cuts' = 0
                  /\ pc' = "loop"
                  /\ UNCHANGED << stop, session >>
          /\ h' = [h EXCEPT !.solvedRows = rows]
  /\ UNCHANGED othervars
  /\ UNCHANGED purevars
  /\ UNCHANGED << fn, ilp_session, cut_mode, optimal_sol, cuts_to_process, ci,
                  cuts_added_this_iteration, current_sol, current_status,
                  rows, bodies >>

\* gomory.py 225-227 false: the loop ends, 305-306 return tot_stats
ExitLoop ==
  /\ fn = "algorithm" /\ pc = "loop"
  /\ ~LoopGuard(total_time, num_total_cuts, sol, optimal_sol, status, iteration)
  /\ Returned("LOOP_EXIT")
  /\ UNCHANGED othervars
  /\ UNCHANGED purevars
  /\ UNCHANGED << fn, ilp_session, cut_mode, optimal_sol, sol, sol_type, status, tot_stats,
                  iteration, total_time, num_total_cuts, cuts_to_process, ci,
                  cuts_added_this_iteration, current_sol, current_status,
                  rows, bodies, h >>

\* gomory.py 225-268: the guard holds, the cuts of the iteration are generated
StartIteration ==
  /\ fn = "algorithm" /\ pc = "loop"
  /\ LoopGuard(total_time, num_total_cuts, sol, optimal_sol, status, iteration)
  /\ bodies' = bodies + 1
  /\ \E nf \in 0..MaxCands, readable \in BOOLEAN :
     \E ngfc \in 0..nf, ngmi \in 0..nf :
       LET cuts_gfc == GeneratorResult(readable, GenCuts("GFC", ngfc))
           cuts_gmi == GeneratorResult(readable, GenCuts("GMI", ngmi))
           hs == [h EXCEPT !.rowsAtStart = rows,
                           !.fracRows = IF readable THEN nf ELSE 0,
                           !.lastReject = << >>,
                           !.gapAtStart = GapOpen(sol, optimal_sol),
                           !.tableauLost = ~readable,
                           !.len_gmi = Len(cuts_gmi),
                           !.len_gfc = Len(cuts_gfc)]
       IN /\ (cut_mode = "GFC" => ngmi = 0)
          /\ (cut_mode = "GMI" => ngfc = 0)
          /\ h' = hs
          /\ IF cut_mode = "BEST" /\ BestRaises(cuts_gmi, cuts_gfc)
             THEN \* IndexError, re-raised at 311-313
                  /\ Raised("IndexError")
                  /\ UNCHANGED << cuts_to_process, ci, cuts_added_this_iteration >>
             ELSE LET cuts == CASE cut_mode = "GFC" -> cuts_gfc
                                [] cut_mode = "GMI" -> cuts_gmi
                                [] OTHER -> BestCombine(SortCuts(cuts_gmi),
                                                        SortCuts(cuts_gfc))
                  IN IF NoCuts(cuts)
                     THEN \* 254-256: break
                          /\ Returned("NO_CUTS")
                          /\ UNCHANGED << cuts_to_process, ci,
                                          cuts_added_this_iteration >>
                     ELSE /\ cuts_to_process' = SortCuts(cuts)
                          /\ cuts_added_this_iteration' = 0
                          /\ ci' = 0
                          /\ pc' = IF Len(cuts) > 0 THEN "add" ELSE "endfor"
                          /\ UNCHANGED << stop, session >>
  /\ UNCHANGED othervars
  /\ UNCHANGED purevars
  /\ UNCHANGED << fn, ilp_session, cut_mode, optimal_sol, sol, sol_type, status, tot_stats,
                  iteration, total_time, num_total_cuts, current_sol,
                  current_status, rows >>

\* gomory.py 273-278: the candidate becomes a row of the relaxation
AddCut ==
  /\ fn = "algorithm" /\ pc = "add"
  /\ \/ /\ CplexFailure("add")
        /\ rows' = rows
     \/ /\ rows' = rows \cup {CutName(cut_mode, iteration, ci)}
        /\ pc' = "solve"
        /\ h' = [h EXCEPT !.lastReject = << >>, !.rowsBefore = rows]
        /\ UNCHANGED << stop, session >>
  /\ UNCHANGED othervars
  /\ UNCHANGED purevars
  /\ UNCHANGED << fn, ilp_session, cut_mode, optimal_sol, sol, sol_type, status, tot_stats,
                  iteration, total_time, num_total_cuts, cuts_to_process, ci,
                  cuts_added_this_iteration, current_sol, current_status,
                  bodies >>

\* gomory.py 281-283: re-solve and print_solution
Resolve ==
  /\ fn = "algorithm" /\ pc = "solve"
  /\ \/ \* mkp.solve() raises CplexError
        /\ CplexFailure("solve")
        /\ UNCHANGED << current_sol, current_status >>
     \/ \* reading the solution raises CplexError inside print_solution, which
        \* catches it and returns (None, False, status)
        /\ current_sol' = None /\ current_status' = "error"
        /\ pc' = "judge"
        /\ h' = IF h.readFailed THEN [h EXCEPT !.solvedRows = rows]
                ELSE [h EXCEPT !.readFailed = TRUE, !.readStats = tot_stats,
                               !.solvedRows = rows]
        /\ UNCHANGED << stop, session >>
     \/ \* the status is not optimal and there is no objective to read
        /\ current_sol' = None /\ current_status' = Infeasible
        /\ pc' = "judge"
        /\ h' = [h EXCEPT !.solvedRows = rows]
        /\ UNCHANGED << stop, session >>
     \/ \* a status other than optimal that comes with an objective
        /\ current_sol' = sol /\ current_status' = OtherWithValue
        /\ pc' = "judge"
        /\ h' = [h EXCEPT !.solvedRows = rows]
        /\ UNCHANGED << stop, session >>
     \/ \E v \in SolVals(optimal_sol) :
          /\ current_sol' = v /\ current_status' = "optimal"
          /\ pc' = "judge"
          /\ h' = [h EXCEPT !.monotone = h.monotone /\ v >= sol,
                            !.solvedRows = rows]
          /\ UNCHANGED << stop, session >>
  /\ UNCHANGED othervars
  /\ UNCHANGED purevars
  /\ UNCHANGED << fn, ilp_session, cut_mode, optimal_sol, sol, sol_type, status, tot_stats,
                  iteration, total_time, num_total_cuts, cuts_to_process, ci,
                  cuts_added_this_iteration, rows, bodies >>

\* as Unstable, the comparison with the reference optimum forgotten
UnstableStatusOnly(cur_status, cur_sol, opt) == cur_status # "optimal"

\* gomory.py 284: the candidate is rejected
Unstable(cur_status, cur_sol, opt) ==
  cur_status # "optimal" \/ cur_sol > opt + NUMERICAL_TOLERANCE

\* as DeleteRow, the row left in the relaxation
DeleteRowForgotten(rs, name) == rs

\* gomory.py 286: mkp.linear_constraints.delete(cut_name)
DeleteRow(rs, name) == rs \ {name}

\* after the candidate: the next one, or the end of the for loop
NextCandidate ==
  /\ ci' = ci + 1
  /\ pc' = IF ci + 1 < Len(cuts_to_process) THEN "add" ELSE "endfor"

\* gomory.py 284-291: keep the cut or roll it back
Judge ==
  /\ fn = "algorithm" /\ pc = "judge"
  /\ IF Unstable(current_status, current_sol, optimal_sol)
     THEN \/ \* delete raises CplexError
             /\ CplexFailure("delete")
             /\ UNCHANGED << rows, sol, cuts_added_this_iteration, ci >>
          \/ /\ rows' = DeleteRow(rows, CutName(cut_mode, iteration, ci))
             /\ NextCandidate
             /\ h' = [h EXCEPT !.lastReject = CutName(cut_mode, iteration, ci)]
             /\ UNCHANGED << sol, cuts_added_this_iteration, stop, session >>
     ELSE /\ sol' = current_sol
          /\ cuts_added_this_iteration' = cuts_added_this_iteration + 1
          /\ NextCandidate
          /\ h' = [h EXCEPT !.lastAccepted =
                      << current_sol, SolType(current_sol), current_status >>]
          /\ UNCHANGED << rows, stop, session >>
  /\ UNCHANGED othervars
  /\ UNCHANGED purevars
  /\ UNCHANGED << fn, ilp_session, cut_mode, optimal_sol, sol_type, status, tot_stats,
                  iteration, total_time, num_total_cuts, cuts_to_process,
                  current_sol, current_status, bodies >>

\* gomory.py 292-302: the record of the iteration, stall test, bookkeeping
EndIteration ==
  /\ fn = "algorithm" /\ pc = "endfor"
  /\ num_total_cuts' = num_total_cuts + cuts_added_this_iteration
  /\ tot_stats' = Append(tot_stats,
         get_statistics(n_rows + num_total_cuts', optimal_sol, sol, sol_type,
                        status, num_total_cuts', total_time, iteration))
  /\ IF NoCutAdded(cuts_added_this_iteration)
     THEN /\ Returned("STALLED")
          /\ UNCHANGED << total_time, iteration >>
     ELSE /\ \E iteration_time \in TimeSteps :
               total_time' = total_time + iteration_time
          /\ iteration' = iteration + 1
          /\ pc' = "loop"
          /\ UNCHANGED << stop, session >>
  /\ UNCHANGED othervars
  /\ UNCHANGED purevars
  /\ UNCHANGED << fn, ilp_session, cut_mode, optimal_sol, sol, sol_type, status,
                  cuts_to_process, ci, cuts_added_this_iteration, current_sol,
                  current_status, rows, bodies, h >>

NextAlgorithm ==
  \/ OpenReference \/ DetermineOptimal \/ InitialRelaxation \/ ExitLoop \/ StartIteration
  \/ AddCut \/ Resolve \/ Judge \/ EndIteration

(* ====================== analysis/gomory.py: solve_problem =============== *)

\* rel_gap of analysis/gomory.py: float('inf') before the first iteration,
\* then 1 when optimal_sol == 0, else modulus(sol, opt) / (opt + 1e-10),
\* kept as the pair num, den (the value is num / (den + 1e-10)).
RelGapInf == [inf |-> TRUE, num |-> 0, den |-> 1]
RelGapOf(s, opt) ==
  IF opt = 0 THEN [inf |-> FALSE, num |-> 1, den |-> 1]
             ELSE [inf |-> FALSE, num |-> modulus(s, opt), den |-> opt]

\* rel_gap > THRESHOLD_GAP
RelGapAbove(rg) == rg.inf \/ THRESHOLD_GAP_INV * rg.num > rg.den

\* The loop guard of analysis/gomory.py 74-76
AnalysisGuard(tt, rg, st) ==
  /\ tt <= TIME_LIMIT
  /\ RelGapAbove(rg)
  /\ st = "optimal"

\* analysis/gomory.py 41-71: reference optimum, initial relaxation, record 0
AnalysisInitial ==
  /\ fn = "analysis" /\ pc = "start"
  /\ \E opt \in OptVals :
       /\ optimal_sol' = opt
       /\ \/ \* solve_initial_relaxation returned None
             /\ Returned("INITIAL_FAILED")
             /\ UNCHANGED << sol, sol_type, status, tot_stats, iteration,
                             total_time, rel_gap, consecutive_same_solutions >>
          \/ \E st \in {"optimal", Infeasible}, v \in SolVals(opt),
                elapsed_time \in TimeSteps :
               /\ sol' = v /\ sol_type' = SolType(v) /\ status' = st
               /\ tot_stats' = Append(tot_stats,
                      get_statistics(n_rows, opt, v, SolType(v), st, 0,
                                     elapsed_time, 0))
               /\ IF st = Infeasible
                  THEN /\ Returned("INFEASIBLE")
                       /\ UNCHANGED << iteration, total_time, rel_gap,
                                       consecutive_same_solutions >>
                  ELSE /\ iteration' = 1
                       /\ rel_gap' = RelGapInf
                       /\ total_time' = elapsed_time
                       /\ consecutive_same_solutions' = 0
                       /\ pc' = "loop"
                       /\ UNCHANGED << stop, session >>
  /\ UNCHANGED purevars
  /\ UNCHANGED << fn, ilp_session, cut_mode, num_total_cuts, cuts_to_process, ci,
                  cuts_added_this_iteration, current_sol, current_status,
                  max_iterations, cuts_added, rows, bodies, h >>

\* analysis/gomory.py 74-76 false: 127-134 return tot_stats
AnalysisExit ==
  /\ fn = "analysis" /\ pc = "loop"
  /\ ~AnalysisGuard(total_time, rel_gap, status)
  /\ Returned("LOOP_EXIT")
  /\ UNCHANGED purevars
  /\ UNCHANGED << fn, ilp_session, cut_mode, optimal_sol, sol, sol_type, status, tot_stats,
                  iteration, total_time, num_total_cuts, cuts_to_process, ci,
                  cuts_added_this_iteration, current_sol, current_status,
                  rel_gap, consecutive_same_solutions, max_iterations,
                  cuts_added, rows, bodies, h >>

\* analysis/gomory.py 77-125: one pass of the loop.  iterate_gomory returns
\* (sol, sol_type, status, ...) with the status of its last solve, or
\* (None, "error", "error", ...) after an exception; it never returns a
\* false value, so the break of line 93 is not taken.
AnalysisIteration ==
  /\ fn = "analysis" /\ pc = "loop"
  /\ AnalysisGuard(total_time, rel_gap, status)
  /\ bodies' = bodies + 1
  /\ iteration' = iteration + 1
  /\ \/ \* the error tuple
        /\ sol' = None /\ sol_type' = FALSE /\ status' = "error"
        /\ tot_stats' = tot_stats
        /\ IF optimal_sol = 0
           THEN /\ rel_gap' = RelGapOf(None, optimal_sol)
                /\ consecutive_same_solutions' = 0
                /\ \E iteration_time \in TimeSteps :
                     total_time' = total_time + iteration_time
                /\ UNCHANGED << pc, stop, session >>
           ELSE \* modulus(None, optimal_sol): TypeError
                /\ Raised("TypeError")
                /\ UNCHANGED << rel_gap, consecutive_same_solutions, total_time >>
     \/ \E st \in {"optimal", Infeasible}, v \in SolVals(optimal_sol),
           iteration_time \in TimeSteps :
          LET same == IF v = sol THEN consecutive_same_solutions + 1 ELSE 0
          IN /\ sol' = v /\ sol_type' = SolType(v) /\ status' = st
             /\ tot_stats' = Append(tot_stats,
                    get_statistics(n_rows, optimal_sol, v, SolType(v), st,
                                   bodies + 1, iteration_time, 0))
             /\ consecutive_same_solutions' = same
             /\ rel_gap' = RelGapOf(v, optimal_sol)
             /\ total_time' = total_time + iteration_time
             /\ IF same >= 3
                THEN Returned("SAME_SOLUTIONS")
                ELSE UNCHANGED << pc, stop, session >>
  /\ UNCHANGED purevars
  /\ UNCHANGED << fn, ilp_session, cut_mode, optimal_sol, num_total_cuts, cuts_to_process,
                  ci, cuts_added_this_iteration, current_sol, current_status,
                  max_iterations, cuts_added, rows, h >>

NextAnalysis == AnalysisInitial \/ AnalysisExit \/ AnalysisIteration

(* ================= the UFL formulation and the cut generators =========== *)

\* sum of the first n entries of a sequence of numbers
RECURSIVE SumTo(_, _)
SumTo(f, n) == IF n = 0 THEN 0 ELSE f[n] + SumTo(f, n - 1)

\* the scalar product of two vectors of one length
Dot(a, x) == SumTo([j \in 1..Len(a) |-> a[j] * x[j]], Len(a))

\* column of the assignment variable of facility u and customer v (both
\* counted from 0, as in the code): index p + u*r + v, columns counted from 1
Col(p, r, u, v) == p + u * r + v + 1

\* get_problem_data with the second row of every demand pair left out of the
\* negation, so that the pair states  sum <= 1  twice
get_problem_data_no_lower(p, r, fixed_costs, assignment_costs, maximize) ==
  LET n_vars == p + r * p
      cost(j) == IF j <= p THEN fixed_costs[j]
                 ELSE assignment_costs[((j - p - 1) % r) + 1][((j - p - 1) \div r) + 1]
      demand(v) == [j \in 1..n_vars |->
                      IF \E u \in 0..(p - 1) : j = Col(p, r, u, v) THEN 1 ELSE 0]
      link(u, v) == [j \in 1..n_vars |->
                      IF j = Col(p, r, u, v) THEN 1
                      ELSE IF j = u + 1 THEN 0 - 1 ELSE 0]
  IN [ c |-> [j \in 1..n_vars |-> IF maximize THEN 0 - cost(j) ELSE cost(j)],
       A |-> [i \in 1..(2 * r + p * r) |->
                IF i <= 2 * r
                THEN demand((i - 1) \div 2)
                ELSE link((i - 2 * r - 1) \div r, (i - 2 * r - 1) % r)],
       b |-> [i \in 1..(2 * r + p * r) |-> IF i <= 2 * r THEN 1 ELSE 0] ]

\* Solver.get_problem_data (algorithm/solver.py 138-183): the cost vector c,
\* the rows A and the right-hand sides b of  A x <= b
get_problem_data(p, r, fixed_costs, assignment_costs, maximize) ==
  LET n_vars == p + r * p
      cost(j) == IF j <= p THEN fixed_costs[j]
                 ELSE assignment_costs[((j - p - 1) % r) + 1][((j - p - 1) \div r) + 1]
      demand(v) == [j \in 1..n_vars |->
                      IF \E u \in 0..(p - 1) : j = Col(p, r, u, v) THEN 1 ELSE 0]
      link(u, v) == [j \in 1..n_vars |->
                      IF j = Col(p, r, u, v) THEN 1
                      ELSE IF j = u + 1 THEN 0 - 1 ELSE 0]
  IN [ c |-> [j \in 1..n_vars |-> IF maximize THEN 0 - cost(j) ELSE cost(j)],
       A |-> [i \in 1..(2 * r + p * r) |->
                IF i <= 2 * r
                THEN IF i % 2 = 1
                     THEN demand((i - 1) \div 2)
                     ELSE [j \in 1..n_vars |-> 0 - demand((i - 2) \div 2)[j]]
                ELSE link((i - 2 * r - 1) \div r, (i - 2 * r - 1) % r)],
       b |-> [i \in 1..(2 * r + p * r) |->
                IF i <= 2 * r THEN (IF i % 2 = 1 THEN 1 ELSE 0 - 1) ELSE 0] ]

\* the 0/1 vector x satisfies A x <= b
Feasible(A, b, x) == \A i \in 1..Len(A) : Dot(A[i], x) <= b[i]

\* An instance whose relaxation has a fractional optimum: three facilities of
\* fixed cost 2, three customers, customer v served free of charge by the two
\* facilities other than v and at cost 10 by facility v.
TriangleFixedCosts == << 2, 2, 2 >>
TriangleAssignmentCosts == << << 10, 0, 0 >>, << 0, 10, 0 >>, << 0, 0, 10 >> >>
Triangle ==
  get_problem_data(Len(TriangleFixedCosts), Len(TriangleAssignmentCosts),
                   TriangleFixedCosts, TriangleAssignmentCosts, FALSE)

\* What the LP engine reports for an optimal basis of that relaxation: the
\* basic column of every row (structural columns 1..n, then one slack per
\* row) and the inverse of the basis matrix, in units of 1/den.
TriangleBasis ==
  [ den  |-> 2,
    head |-> << 1, 2, 3, 5, 6, 7, 9, 10, 11, 13, 15, 17, 19, 23, 27 >>,
    binv |-> <<
     <<  0,  1,  0, -1,  0, -1,  0, -1, -1,  1,  0, -1,  1, -1,  0 >>,
     <<  0, -1,  0,  1,  0, -1,  0,  1, -1, -1,  0, -1, -1,  1,  0 >>,
     <<  0, -1,  0, -1,  0,  1,  0, -1,  1, -1,  0,  1, -1, -1,  0 >>,
     <<  0,  1,  0, -1,  0, -1,  0,  1, -1,  1,  0, -1,  1, -1,  0 >>,
     <<  0,  1,  0, -1,  0, -1,  0, -1,  1,  1,  0, -1,  1, -1,  0 >>,
     <<  0, -1,  0,  1,  0, -1,  0,  1, -1,  1,  0, -1, -1,  1,  0 >>,
     <<  0, -1,  0,  1,  0, -1,  0,  1, -1, -1,  0,  1, -1,  1,  0 >>,
     <<  0, -1,  0, -1,  0,  1,  0, -1,  1, -1,  0,  1,  1, -1,  0 >>,
     <<  0, -1,  0, -1,  0,  1,  0, -1,  1, -1,  0,  1, -1,  1,  0 >>,
     <<  2,  2,  0,  0,  0,  0,  0,  0,  0,  0,  0,  0,  0,  0,  0 >>,
     <<  0,  0,  2,  2,  0,  0,  0,  0,  0,  0,  0,  0,  0,  0,  0 >>,
     <<  0,  0,  0,  0,  2,  2,  0,  0,  0,  0,  0,  0,  0,  0,  0 >>,
     <<  0,  1,  0, -1,  0, -1,  2, -1, -1,  1,  0, -1,  1, -1,  0 >>,
     <<  0, -1,  0,  1,  0, -1,  0,  1, -1, -1,  2, -1, -1,  1,  0 >>,
     <<  0, -1,  0, -1,  0,  1,  0, -1,  1, -1,  0,  1, -1, -1,  2 >> >> ]

\* The rows of the basis in the order of the constraint rows: a slack that
\* never left the basis sits in its own row (13 in row 1, 15 in row 3, ...),
\* the structural columns in the rows between.  Entry i is the row of
\* TriangleBasis that becomes row i.
RowOrder == << 10, 1, 11, 2, 12, 3, 13, 4, 5, 6, 14, 7, 8, 9, 15 >>
BasisOrders == {"structural_first", "by_row"}

\* the basis with its rows, and so the rows of every tableau, reordered
PermuteBasis(B, order) ==
  [ den  |-> B.den,
    head |-> [i \in 1..Len(order) |-> B.head[order[i]]],
    binv |-> [i \in 1..Len(order) |-> B.binv[order[i]]] ]

\* what the session reports in this run: the row order is the engine's
ReportedBasis ==
  IF basis_order = "by_row" THEN PermuteBasis(TriangleBasis, RowOrder)
                            ELSE TriangleBasis

\* prob.solution.advanced.binvarow(): row i of B^-1 A over the structural
\* columns, in units of 1/den
tableau_rows_float ==
  [i \in 1..Len(Triangle.A) |->
     [j \in 1..Len(Triangle.c) |->
        SumTo([k \in 1..Len(Triangle.A) |->
                 ReportedBasis.binv[i][k] * Triangle.A[k][j]], Len(Triangle.A))]]

\* row i of B^-1 b: the value of the basic variable of row i, in units of 1/den
BasicValue(i) == Dot(ReportedBasis.binv[i], Triangle.b)

\* prob.solution.basis.get_basis(): the status of every structural column
basis_col_status ==
  [j \in 1..Len(Triangle.c) |->
     IF \E i \in 1..Len(ReportedBasis.head) : ReportedBasis.head[i] = j
     THEN "basic" ELSE "at_lower_bound"]

\* prob.solution.get_values(), in units of 1/den
values ==
  [j \in 1..Len(Triangle.c) |->
     IF basis_col_status[j] = "basic"
     THEN BasicValue(CHOOSE i \in 1..Len(ReportedBasis.head) :
                        ReportedBasis.head[i] = j)
     ELSE 0]

\* the columns in their order
AllColumns == [j \in 1..Len(Triangle.c) |-> j]
IsBasic(j) == basis_col_status[j] = "basic"
IsNonBasic(j) == basis_col_status[j] # "basic"
basic_var_indices == SelectSeq(AllColumns, IsBasic)
non_basic_var_indices == SelectSeq(AllColumns, IsNonBasic)

\* a - floor(a) of a/den as a numerator over den.  The quotients met here are
\* multiples of 1/den with den far below 1e6, so limit_denominator leaves them
\* as they are and `> NUMERICAL_TOLERANCE` is `> 0`.
FracNum(a, den) == a % den

\* _generate_gomory_fractional_cuts (gomory.py 62-88): the cut of the i-th
\* basic structural variable, built from tableau row i:
\*   sum of f_j x_j over the nonbasic structural columns  >=  f_i ,
\* here multiplied by den.  << >> when the row gives no cut.
FractionalCut(i) ==
  LET den == ReportedBasis.den
      f_i == FracNum(values[basic_var_indices[i]], den)
      f(j) == FracNum(tableau_rows_float[i][j], den)
      Kept(j) == f(j) > 0
      cut_indices == SelectSeq(non_basic_var_indices, Kept)
  IN IF f_i > 0 /\ den - f_i > 0 /\ cut_indices # << >>
     THEN << [ indices |-> cut_indices,
               coeffs  |-> [k \in 1..Len(cut_indices) |-> f(cut_indices[k])],
               rhs     |-> f_i,
               sense   |-> "G",
               kind    |-> "GFC",
               var     |-> basic_var_indices[i],  \* the candidate
               row     |-> i ] >>                 \* the tableau row read
     ELSE << >>

\* _generate_gomory_mixed_integer_cuts (gomory.py 111-175).  Every column is
\* named x<i> (gomory.py 202), so every basic variable is taken and every
\* nonbasic column goes through the integer branch of lines 141-151:
\*   f_j                              when f_j <= f_i
\*   f_i / (1 - f_i) * (1 - f_j)      otherwise,
\* here multiplied by den * (den - f_i).
MixedIntegerCut(i) ==
  LET den == ReportedBasis.den
      f_i == FracNum(values[basic_var_indices[i]], den)
      a(j) == tableau_rows_float[i][j]
      coeff(j) == IF FracNum(a(j), den) <= f_i
                  THEN FracNum(a(j), den) * (den - f_i)
                  ELSE f_i * (den - FracNum(a(j), den))
      Kept(j) == a(j) # 0 /\ coeff(j) > 0
      cut_indices == SelectSeq(non_basic_var_indices, Kept)
  IN IF f_i > 0 /\ den - f_i > 0 /\ cut_indices # << >>
     THEN << [ indices |-> cut_indices,
               coeffs  |-> [k \in 1..Len(cut_indices) |-> coeff(cut_indices[k])],
               rhs     |-> f_i * (den - f_i),
               sense   |-> "G",
               kind    |-> "GMI",
               var     |-> basic_var_indices[i],
               row     |-> i ] >>
     ELSE << >>

\* the cuts of the first n basic structural variables, in their order
RECURSIVE CutsOfRows(_, _)
CutsOfRows(kind, n) ==
  IF n = 0 THEN << >>
  ELSE CutsOfRows(kind, n - 1) \o
       (IF kind = "GFC" THEN FractionalCut(n) ELSE MixedIntegerCut(n))

\* One call of a generator on the optimal basis above
GenerateCuts ==
  /\ fn = "generate" /\ pc = "start"
  /\ \E kind \in {"GFC", "GMI"} :
       /\ cut_mode' = kind
       /\ generated_cuts' = CutsOfRows(kind, Len(basic_var_indices))
  /\ pc' = "returned"
  /\ UNCHANGED othervars
  /\ UNCHANGED << fn, stop, optimal_sol, sol, sol_type, status, tot_stats,
                  iteration, total_time, num_total_cuts, cuts_to_process, ci,
                  cuts_added_this_iteration, current_sol, current_status,
                  rows, session, ilp_session, bodies, h >>
  /\ UNCHANGED datavars

(* ======== utility/facilityLocation.py and Solver.get_problem_data ======= *)

\* before FacilityLocationModel is constructed, before get_problem_data runs
NoInstance ==
  [ num_facilities |-> 0, num_customers |-> 0,
    fixed_costs |-> << >>, assignment_costs |-> << >> ]
NoData == [ maximize |-> FALSE, c |-> << >>, A |-> << >>, b |-> << >> ]

\* cost arrays of the given shape whose entries differ by position
CostBases == {0, 5, 7}
FixedCostsOf(base, n) == [u \in 1..n |-> base + u]
AssignmentCostsOf(base, lens) ==
  [v \in 1..Len(lens) |-> [u \in 1..lens[v] |-> base + 10 * v + u]]

\* row lengths of an assignment matrix of up to MaxCustomers rows
RowLengths ==
  UNION {[1..n -> 1..MaxFacilities] : n \in 1..MaxCustomers}

\* _validate_data without the loop over the rows of assignment_costs
_validate_data_rows_unchecked(m) ==
  /\ Len(m.fixed_costs) = m.num_facilities
  /\ Len(m.assignment_costs) = m.num_customers

\* FacilityLocationModel._validate_data (facilityLocation.py 14-27): TRUE when
\* no ValueError is raised
_validate_data(m) ==
  /\ Len(m.fixed_costs) = m.num_facilities
  /\ Len(m.assignment_costs) = m.num_customers
  /\ \A i \in 1..Len(m.assignment_costs) :
       Len(m.assignment_costs[i]) = m.num_facilities

\* FacilityLocationModel.__init__ (facilityLocation.py 5-12): the fields are
\* stored, then validated; a ValueError leaves the constructor and nothing of
\* the run exists yet
BuildInstance ==
  /\ fn = "formulate" /\ pc = "start"
  /\ \E p \in 1..MaxFacilities, r \in 1..MaxCustomers, base \in CostBases,
        n \in 1..MaxFacilities, lens \in RowLengths :
       LET m == [ num_facilities   |-> p,
                  num_customers    |-> r,
                  fixed_costs      |-> FixedCostsOf(base, n),
                  assignment_costs |-> AssignmentCostsOf(base, lens) ]
       IN /\ instance' = m
          /\ IF _validate_data(m)
             THEN pc' = "built" /\ stop' = stop
             ELSE pc' = "raised" /\ stop' = "ValueError"
  /\ UNCHANGED othervars
  /\ UNCHANGED << fn, cut_mode, optimal_sol, sol, sol_type, status, tot_stats,
                  iteration, total_time, num_total_cuts, cuts_to_process, ci,
                  cuts_added_this_iteration, current_sol, current_status,
                  rows, session, ilp_session, generated_cuts, problem_data,
                  basis_order, lpvars, filevars, bodies, h >>

\* the dimension checks analysis/solver.py 228-231 asserts
DimensionsMatch(m) ==
  /\ Len(m.fixed_costs) = m.num_facilities
  /\ Len(m.assignment_costs) = m.num_customers
  /\ \A i \in 1..Len(m.assignment_costs) :
       Len(m.assignment_costs[i]) = m.num_facilities

\* Solver.get_problem_data on the constructed instance (algorithm/solver.py
\* 138-183; analysis/solver.py 220-288 is the case maximize = FALSE after its
\* assertions)
GetProblemData ==
  /\ fn = "formulate" /\ pc = "built"
  /\ IF DimensionsMatch(instance)
     THEN /\ \E maximize \in BOOLEAN :
               LET d == get_problem_data(instance.num_facilities,
                                         instance.num_customers,
                                         instance.fixed_costs,
                                         instance.assignment_costs, maximize)
               IN problem_data' =
                    [ maximize |-> maximize, c |-> d.c, A |-> d.A, b |-> d.b ]
          /\ pc' = "returned" /\ stop' = stop
     ELSE /\ pc' = "raised" /\ stop' = "AssertionError"
          /\ UNCHANGED problem_data
  /\ UNCHANGED othervars
  /\ UNCHANGED << fn, cut_mode, optimal_sol, sol, sol_type, status, tot_stats,
                  iteration, total_time, num_total_cuts, cuts_to_process, ci,
                  cuts_added_this_iteration, current_sol, current_status,
                  rows, session, ilp_session, generated_cuts, instance,
                  basis_order, lpvars, filevars, bodies, h >>

NextFormulate == BuildInstance \/ GetProblemData

(* ============== analysis/gomory_cut.py: solve_with_gomory_cuts ========== *)

\* gomory_cut.py 294
SimpleGuard(it, maxit) == it < maxit

\* What _solve_with_simplex hands back, in units of 1/den: the fractional
\* optimum of the relaxation of Triangle, or a 0/1 solution (facilities 1 and
\* 2 open, customer 2 at facility 1, customers 0 and 1 at facility 2).
IntegralSolution ==
  [j \in 1..Len(Triangle.c) |->
     LET p == Len(TriangleFixedCosts)
         r == Len(TriangleAssignmentCosts)
     IN IF j \in {2, 3, Col(p, r, 1, 2), Col(p, r, 2, 0), Col(p, r, 2, 1)}
        THEN ReportedBasis.den ELSE 0]
SimplexSolutions == {values, IntegralSolution}

\* abs(value - round(value)) of value = a/den, as a numerator over den
FractPart(a, den) == IF a % den <= den - (a % den) THEN a % den ELSE den - (a % den)

\* _is_integer_solution (gomory_cut.py 198-219); the tolerance 1e-6 is below
\* 1/den
IsIntegerSolution(solution, den) ==
  \A i \in 1..Len(solution) : FractPart(solution[i], den) = 0

\* _find_most_fractional_variable (gomory_cut.py 221-244): the first index of
\* the largest fractional part
MostFractional(solution, den) ==
  CHOOSE i \in 1..Len(solution) :
    /\ \A k \in 1..Len(solution) :
          FractPart(solution[k], den) <= FractPart(solution[i], den)
    /\ \A k \in 1..(i - 1) :
          FractPart(solution[k], den) < FractPart(solution[i], den)

\* _generate_simple_gomory_cut (gomory_cut.py 246-265): x_i <= floor(value)
SimpleCut(var_idx, value, den) ==
  [ indices |-> << var_idx >>, coeffs |-> << 1 >>,
    rhs |-> value \div den, sense |-> "L" ]

\* gomory_cut.py 294-343: one pass of the loop
SimpleIteration ==
  /\ fn = "simple" /\ pc = "start"
  /\ SimpleGuard(iteration, max_iterations)
  /\ iteration' = iteration + 1
  /\ bodies' = bodies + 1
  /\ \/ \* _solve_with_simplex raises: 345-355 return the best solution so far
        /\ Returned("SOLVER_ERROR")
        /\ UNCHANGED << sol, sol_type, cuts_added, rows, generated_cuts, h >>
     \/ \E v \in SolVals(SmallOpt), solution \in SimplexSolutions :
          LET den == ReportedBasis.den
              is_integer == IsIntegerSolution(solution, den)
              var_idx == MostFractional(solution, den)
          IN /\ sol' = v /\ sol_type' = is_integer
             /\ h' = [h EXCEPT !.simplex = Append(h.simplex, solution)]
             /\ IF is_integer
                THEN \* 315-317
                     /\ Returned("INTEGER")
                     /\ UNCHANGED << cuts_added, rows, generated_cuts >>
                ELSE \* 321-343: the cut on the most fractional variable
                     /\ rows' = rows \cup {CutName("simple", iteration + 1, 0)}
                     /\ generated_cuts' =
                          Append(generated_cuts,
                                 SimpleCut(var_idx, solution[var_idx], den))
                     /\ cuts_added' = cuts_added + 1
                     /\ UNCHANGED << pc, stop, session >>
  /\ UNCHANGED << fn, ilp_session, cut_mode, optimal_sol, status, tot_stats,
                  total_time, num_total_cuts, cuts_to_process, ci,
                  cuts_added_this_iteration, current_sol, current_status,
                  rel_gap, consecutive_same_solutions, max_iterations >>
  /\ UNCHANGED datavars

\* gomory_cut.py 357-362: the loop ended by its guard.  With no pass at all
\* `solution` was never bound and line 358 raises UnboundLocalError.
SimpleExit ==
  /\ fn = "simple" /\ pc = "start"
  /\ ~SimpleGuard(iteration, max_iterations)
  /\ IF bodies = 0 THEN Raised("UnboundLocalError")
                   ELSE Returned("ITERATION_LIMIT")
  /\ UNCHANGED purevars
  /\ UNCHANGED << fn, ilp_session, cut_mode, optimal_sol, sol, sol_type, status, tot_stats,
                  iteration, total_time, num_total_cuts, cuts_to_process, ci,
                  cuts_added_this_iteration, current_sol, current_status,
                  rel_gap, consecutive_same_solutions, max_iterations,
                  cuts_added, rows, bodies, h >>

NextSimple == SimpleIteration \/ SimpleExit

(* ========================= analysis/LP.py: Simplex ====================== *)

\* before a Simplex is constructed, before solve returns
NoLP == [ A |-> << >>, b |-> << >>, c |-> << >> ]
NoResult ==
  [ optimal |-> FALSE, unbounded |-> FALSE, alternate |-> FALSE,
    iterations |-> 0, objective_value |-> [inf |-> FALSE, value |-> 0] ]

\* rows with consecutive entries of one sign: every matrix made of them is
\* totally unimodular, so with whole b every tableau of the run is whole and
\* the floating-point arithmetic of _pivot is exact
IntervalRows(n) ==
  { [j \in 1..n |-> IF lo <= j /\ j <= hi THEN s ELSE 0] :
      lo \in 1..n, hi \in 1..n, s \in {0 - 1, 1} }

\* the problems Simplex is constructed with: maximise c.x, A.x <= b, x >= 0
LPs ==
  [ A : [1..LpRows -> IntervalRows(LpVars)],
    b : [1..LpRows -> {0, 1}],
    c : [1..LpVars -> {0 - 1, 0, 1}] ]

\* _prepare_standard_form (LP.py 51-66): one slack column per row
_prepare_standard_form(A, b, c) ==
  LET m == Len(A)
  IN [ A |-> [i \in 1..m |-> A[i] \o [k \in 1..m |-> IF k = i THEN 1 ELSE 0]],
       b |-> b,
       c |-> c \o [k \in 1..m |-> 0] ]

\* self.A, self.b, self.c of the Simplex constructed with lp
Standard == _prepare_standard_form(lp.A, lp.b, lp.c)

\* _create_initial_tableau (LP.py 68-84): row i is [B | cb | xb | A[i]] with
\* the slack of row i basic; columns are counted from 1
_create_initial_tableau(std) ==
  LET m == Len(std.A)
      n == Len(std.c)
  IN [i \in 1..m |-> << n - m + i, std.c[n - m + i], std.b[i] >> \o std.A[i]]

\* zj - c[j] of LP.py 89-90 and 98-99
ReducedCost(tab, c, j) ==
  SumTo([i \in 1..Len(tab) |-> tab[i][2] * tab[i][3 + j]], Len(tab)) - c[j]

\* _is_optimal (LP.py 86-93); for whole numbers `< -1e-10` is `< 0`
_is_optimal(tab, c) ==
  \A j \in 1..Len(c) : ~(ReducedCost(tab, c, j) < 0)

\* _find_entering_variable (LP.py 95-102): the first column with a negative
\* reduced cost, or -1
_find_entering_variable(tab, c) ==
  IF \E j \in 1..Len(c) : ReducedCost(tab, c, j) < 0
  THEN CHOOSE j \in 1..Len(c) :
         /\ ReducedCost(tab, c, j) < 0
         /\ \A k \in 1..(j - 1) : ~(ReducedCost(tab, c, k) < 0)
  ELSE 0 - 1

\* row i takes part in the ratio test (LP.py 110-112): positive entry and
\* ratio xb / entry >= 0
RatioRow(tab, e, i) == tab[i][3 + e] > 0 /\ tab[i][3] >= 0

\* ratio of row i < ratio of row k, both with positive entries
RatioLess(tab, e, i, k) == tab[i][3] * tab[k][3 + e] < tab[k][3] * tab[i][3 + e]

\* _find_leaving_variable (LP.py 104-116): the first row of minimal ratio, or
\* -1
_find_leaving_variable(tab, e) ==
  IF \E i \in 1..Len(tab) : RatioRow(tab, e, i)
  THEN CHOOSE i \in 1..Len(tab) :
         /\ RatioRow(tab, e, i)
         /\ \A k \in 1..Len(tab) :
              RatioRow(tab, e, k) =>
                 /\ ~RatioLess(tab, e, k, i)
                 /\ (k < i => RatioLess(tab, e, i, k))
  ELSE 0 - 1

\* _pivot (LP.py 118-133): xb and the coefficients of the pivot row are
\* divided by the pivot element, the pivot column is cleared in the other
\* rows, and the pivot row gets its new basic variable and cost
_pivot(tab, pivot_row, pivot_col, c) ==
  LET pivot_element == tab[pivot_row][3 + pivot_col]
      width == Len(tab[pivot_row])
      normal == [k \in 1..width |->
                   IF k >= 3 THEN tab[pivot_row][k] \div pivot_element
                             ELSE tab[pivot_row][k]]
  IN [i \in 1..Len(tab) |->
        IF i = pivot_row
        THEN [k \in 1..width |->
                IF k = 1 THEN pivot_col
                ELSE IF k = 2 THEN c[pivot_col] ELSE normal[k]]
        ELSE IF Abs(tab[i][3 + pivot_col]) > 0
             THEN [k \in 1..width |->
                     IF k >= 3
                     THEN tab[i][k] - tab[i][3 + pivot_col] * normal[k]
                     ELSE tab[i][k]]
             ELSE tab[i]]

\* LP.py 164: np.sum(tableau[:, 1] * tableau[:, 2])
ObjectiveValue(tab) ==
  SumTo([i \in 1..Len(tab) |-> tab[i][2] * tab[i][3]], Len(tab))

\* LP.py 141: the guard of the while loop
PivotsLeft(count) == count < SimplexMaxIterations

\* Simplex.__init__ (LP.py 26-49): the problem is taken over
SimplexInit ==
  /\ fn = "simplex" /\ pc = "start"
  /\ lp' \in LPs
  /\ pc' = "constructed"
  /\ UNCHANGED << tableau, iteration_count, result >>
  /\ UNCHANGED othervars
  /\ UNCHANGED << fn, stop, cut_mode, optimal_sol, sol, sol_type, status,
                  tot_stats, iteration, total_time, num_total_cuts,
                  cuts_to_process, ci, cuts_added_this_iteration, current_sol,
                  current_status, rows, session, ilp_session, generated_cuts,
                  basis_order, instance, problem_data, filevars, bodies, h >>

\* LP.py 137-139: the initial tableau
SimplexStart ==
  /\ fn = "simplex" /\ pc = "constructed"
  /\ tableau' = _create_initial_tableau(Standard)
  /\ iteration_count' = 0
  /\ pc' = "loop"
  /\ UNCHANGED << lp, result >>
  /\ UNCHANGED othervars
  /\ UNCHANGED << fn, stop, cut_mode, optimal_sol, sol, sol_type, status,
                  tot_stats, iteration, total_time, num_total_cuts,
                  cuts_to_process, ci, cuts_added_this_iteration, current_sol,
                  current_status, rows, session, ilp_session, generated_cuts,
                  basis_order, instance, problem_data, filevars, bodies, h >>

\* LP.py 141-160: one pass of the loop that pivots
SimplexPivot ==
  /\ fn = "simplex" /\ pc = "loop"
  /\ PivotsLeft(iteration_count)
  /\ ~_is_optimal(tableau, Standard.c)
  /\ LET entering_var == _find_entering_variable(tableau, Standard.c)
     IN /\ entering_var # 0 - 1
        /\ LET leaving_var == _find_leaving_variable(tableau, entering_var)
           IN /\ leaving_var # 0 - 1
              /\ tableau' = _pivot(tableau, leaving_var, entering_var,
                                   Standard.c)
  /\ iteration_count' = iteration_count + 1
  /\ UNCHANGED << lp, result >>
  /\ UNCHANGED othervars
  /\ UNCHANGED << fn, pc, stop, cut_mode, optimal_sol, sol, sol_type, status,
                  tot_stats, iteration, total_time, num_total_cuts,
                  cuts_to_process, ci, cuts_added_this_iteration, current_sol,
                  current_status, rows, session, ilp_session, generated_cuts,
                  basis_order, instance, problem_data, filevars, bodies, h >>

\* LP.py 151-156: no row passes the ratio test
SimplexUnbounded ==
  /\ fn = "simplex" /\ pc = "loop"
  /\ PivotsLeft(iteration_count)
  /\ ~_is_optimal(tableau, Standard.c)
  /\ LET entering_var == _find_entering_variable(tableau, Standard.c)
     IN /\ entering_var # 0 - 1
        /\ _find_leaving_variable(tableau, entering_var) = 0 - 1
  /\ result' = [ optimal |-> FALSE, unbounded |-> TRUE, alternate |-> FALSE,
                 iterations |-> iteration_count,
                 objective_value |-> [inf |-> TRUE, value |-> 0] ]
  /\ Returned("UNBOUNDED")
  /\ UNCHANGED << lp, tableau, iteration_count >>
  /\ UNCHANGED othervars
  /\ UNCHANGED << fn, cut_mode, optimal_sol, sol, sol_type, status,
                  tot_stats, iteration, total_time, num_total_cuts,
                  cuts_to_process, ci, cuts_added_this_iteration, current_sol,
                  current_status, rows, ilp_session, generated_cuts,
                  basis_order, instance, problem_data, filevars, bodies, h >>

\* LP.py 141-149 and 163-167: the loop is left by its guard or by a break,
\* and the result is built
SimplexReturn ==
  /\ fn = "simplex" /\ pc = "loop"
  /\ \/ ~PivotsLeft(iteration_count)
     \/ _is_optimal(tableau, Standard.c)
     \/ _find_entering_variable(tableau, Standard.c) = 0 - 1
  /\ result' = [ optimal |-> TRUE, unbounded |-> FALSE, alternate |-> FALSE,
                 iterations |-> iteration_count,
                 objective_value |->
                    [inf |-> FALSE, value |-> ObjectiveValue(tableau)] ]
  /\ Returned(IF PivotsLeft(iteration_count) THEN "OPTIMAL" ELSE "PIVOT_LIMIT")
  /\ UNCHANGED << lp, tableau, iteration_count >>
  /\ UNCHANGED othervars
  /\ UNCHANGED << fn, cut_mode, optimal_sol, sol, sol_type, status,
                  tot_stats, iteration, total_time, num_total_cuts,
                  cuts_to_process, ci, cuts_added_this_iteration, current_sol,
                  current_status, rows, ilp_session, generated_cuts,
                  basis_order, instance, problem_data, filevars, bodies, h >>

NextSimplex ==
  SimplexInit \/ SimplexStart \/ SimplexPivot \/ SimplexUnbounded \/ SimplexReturn

(* ====== utility/utils.py generate_ufl_instance, utility/parser.py ======= *)

\* before generate_ufl_instance has drawn the data, before the parser returns
NoParse ==
  [ raised |-> FALSE, num_facilities |-> 0, num_customers |-> 0,
    fixed_costs |-> << >>, assignment_costs |-> << >> ]

\* what random.randint draws for a cost (utils.py 47, 52)
RandomCosts == {0, 12}

\* a line of text is a sequence of characters
DigitChars == << "0", "1", "2", "3", "4", "5", "6", "7", "8", "9" >>
Space == " "

\* str(n) of a natural number: its decimal digits
RECURSIVE str(_)
str(n) ==
  IF n < 10 THEN << DigitChars[n + 1] >>
  ELSE str(n \div 10) \o << DigitChars[(n % 10) + 1] >>

\* " ".join(map(str, row))
RECURSIVE join(_)
join(row) ==
  IF row = << >> THEN << >>
  ELSE IF Len(row) = 1 THEN str(row[1])
  ELSE str(row[1]) \o << Space >> \o join(Tail(row))

\* utils.py 56-66: the header, one fixed cost per line, one line per customer
WriteInstance(p, r, fixed_costs, assignment_costs) ==
  << str(p) \o << Space >> \o str(r) >>
  \o [u \in 1..p |-> str(fixed_costs[u])]
  \o [v \in 1..r |-> join(assignment_costs[v])]

\* line.strip(): blanks at both ends removed
RECURSIVE strip(_)
strip(line) ==
  IF line = << >> THEN line
  ELSE IF Head(line) = Space THEN strip(Tail(line))
  ELSE IF line[Len(line)] = Space THEN strip(SubSeq(line, 1, Len(line) - 1))
  ELSE line

\* line.split(): the maximal runs of characters other than blanks
RECURSIVE split(_)
split(line) ==
  LET l == strip(line)
  IN IF l = << >> THEN << >>
     ELSE IF \E k \in 1..Len(l) : l[k] = Space
          THEN LET cut == CHOOSE k \in 1..Len(l) :
                             /\ l[k] = Space
                             /\ \A q \in 1..(k - 1) : l[q] # Space
               IN << SubSeq(l, 1, cut - 1) >> \o split(SubSeq(l, cut, Len(l)))
          ELSE << l >>

\* the text is the decimal form of a natural number: int(text) and
\* float(text) return, otherwise they raise ValueError
IsNumber(text) ==
  LET t == strip(text)
  IN /\ t # << >>
     /\ \A k \in 1..Len(t) : \E d \in 1..10 : t[k] = DigitChars[d]

DigitValue(ch) == (CHOOSE d \in 1..10 : DigitChars[d] = ch) - 1

\* int(text), and float(text) up to the type of the number
RECURSIVE int(_)
int(text) ==
  LET t == strip(text)
  IN IF Len(t) = 1 THEN DigitValue(t[1])
     ELSE 10 * int(SubSeq(t, 1, Len(t) - 1)) + DigitValue(t[Len(t)])

ParseError == [NoParse EXCEPT !.raised = TRUE]

\* parser.py 14-22 (last == TRUE: parts[-1] of the line) and 24-31 (the whole
\* line): m fixed costs from line idx on
RECURSIVE ReadFixedCosts(_, _, _, _, _)
ReadFixedCosts(ls, idx, m, last, acc) ==
  IF Len(acc) = m THEN [raised |-> FALSE, idx |-> idx, costs |-> acc]
  ELSE IF idx > Len(ls) THEN [raised |-> TRUE, idx |-> idx, costs |-> acc]
  ELSE LET text == IF last THEN split(ls[idx])[Len(split(ls[idx]))]
                   ELSE ls[idx]
       IN IF IsNumber(text)
          THEN ReadFixedCosts(ls, idx + 1, m, last, Append(acc, int(text)))
          ELSE [raised |-> TRUE, idx |-> idx, costs |-> acc]

\* parser.py 46-54: lines are added to row_costs until it has m entries
RECURSIVE ReadRow(_, _, _, _)
ReadRow(ls, idx, m, row_costs) ==
  IF Len(row_costs) >= m
  THEN [raised |-> FALSE, idx |-> idx, costs |-> row_costs]
  ELSE IF idx > Len(ls)
       THEN [raised |-> TRUE, idx |-> idx, costs |-> row_costs]
       ELSE LET parts == split(ls[idx])
            IN IF \A k \in 1..Len(parts) : IsNumber(parts[k])
               THEN ReadRow(ls, idx + 1, m,
                            row_costs \o [k \in 1..Len(parts) |-> int(parts[k])])
               ELSE [raised |-> TRUE, idx |-> idx, costs |-> row_costs]

\* parser.py 33-55: n rows; a line that int() accepts is skipped
RECURSIVE ReadAssignmentCosts(_, _, _, _, _)
ReadAssignmentCosts(ls, idx, m, n, acc) ==
  IF Len(acc) >= n THEN [raised |-> FALSE, costs |-> acc]
  ELSE IF idx > Len(ls) THEN [raised |-> TRUE, costs |-> acc]
  ELSE IF IsNumber(ls[idx])
       THEN ReadAssignmentCosts(ls, idx + 1, m, n, acc)
       ELSE LET row == ReadRow(ls, idx, m, << >>)
            IN IF row.raised THEN [raised |-> TRUE, costs |-> acc]
               ELSE ReadAssignmentCosts(ls, row.idx, m, n,
                                        Append(acc, row.costs))

\* parse_ufl_instance (parser.py 4-62) on the lines of the file, stripped and
\* with the empty ones dropped.  The costs come back as floats, which compare
\* equal to the integers they were written from.
parse_ufl_instance(file) ==
  LET stripped == [k \in 1..Len(file) |-> strip(file[k])]
      NotEmpty(l) == l # << >>
      ls == SelectSeq(stripped, NotEmpty)
      header == IF ls = << >> THEN << >> ELSE split(ls[1])
  IN IF Len(header) # 2 \/ ~IsNumber(header[1]) \/ ~IsNumber(header[2])
        \/ Len(ls) < 2
     THEN ParseError
     ELSE LET m == int(header[1])
              n == int(header[2])
              fixed == ReadFixedCosts(ls, 2, m, Len(split(ls[2])) = 2, << >>)
          IN IF fixed.raised THEN ParseError
             ELSE LET assignment ==
                        ReadAssignmentCosts(ls, fixed.idx, m, n, << >>)
                  IN IF assignment.raised THEN ParseError
                     ELSE [ raised |-> FALSE,
                            num_facilities |-> m,
                            num_customers |-> n,
                            fixed_costs |-> fixed.costs,
                            assignment_costs |-> assignment.costs ]

\* generate_ufl_instance (utils.py 45-69): the costs are drawn and the file
\* is written
GenerateInstance ==
  /\ fn = "instance_file" /\ pc = "start"
  /\ \E p \in 1..MaxFacilities, r \in 1..MaxCustomers :
     \E fixed_costs \in [1..p -> RandomCosts],
        assignment_costs \in [1..r -> [1..p -> RandomCosts]] :
       /\ ufl_data' = [ raised |-> FALSE,
                        num_facilities |-> p, num_customers |-> r,
                        fixed_costs |-> fixed_costs,
                        assignment_costs |-> assignment_costs ]
       /\ lines' = WriteInstance(p, r, fixed_costs, assignment_costs)
  /\ pc' = "written"
  /\ UNCHANGED parsed
  /\ UNCHANGED othervars
  /\ UNCHANGED << fn, stop, cut_mode, optimal_sol, sol, sol_type, status,
                  tot_stats, iteration, total_time, num_total_cuts,
                  cuts_to_process, ci, cuts_added_this_iteration, current_sol,
                  current_status, rows, session, ilp_session, generated_cuts,
                  basis_order, instance, problem_data, lpvars, bodies, h >>

\* parse_ufl_instance on the file that was written
ParseInstance ==
  /\ fn = "instance_file" /\ pc = "written"
  /\ LET data == parse_ufl_instance(lines)
     IN /\ parsed' = data
        /\ IF data.raised THEN Raised("ValueError") ELSE Returned("PARSED")
  /\ UNCHANGED << ufl_data, lines >>
  /\ UNCHANGED othervars
  /\ UNCHANGED << fn, cut_mode, optimal_sol, sol, sol_type, status,
                  tot_stats, iteration, total_time, num_total_cuts,
                  cuts_to_process, ci, cuts_added_this_iteration, current_sol,
                  current_status, rows, ilp_session, generated_cuts,
                  basis_order, instance, problem_data, lpvars, bodies, h >>

NextInstanceFile == GenerateInstance \/ ParseInstance

(* ============================== the system ============================== *)

\* nothing has run yet
InitVars ==
  /\ pc = "start"
  /\ stop = "none"
  /\ cut_mode \in (IF fn = "algorithm" THEN CutModes ELSE {"GFC"})
  /\ optimal_sol = None
  /\ sol = None /\ sol_type = FALSE /\ status = "none"
  /\ tot_stats = << >>
  /\ iteration = 0 /\ total_time = 0 /\ num_total_cuts = 0
  /\ cuts_to_process = << >> /\ ci = 0 /\ cuts_added_this_iteration = 0
  /\ current_sol = None /\ current_status = "none"
  /\ rel_gap = RelGapInf /\ consecutive_same_solutions = 0
  /\ max_iterations \in (IF fn = "simple" THEN 0..MaxIterArg ELSE {0})
  /\ cuts_added = 0
  /\ rows = {}
  /\ session = "none"
  /\ ilp_session = "none"
  /\ generated_cuts = << >>
  /\ basis_order \in (IF fn = "generate" THEN BasisOrders
                                         ELSE {"structural_first"})
  /\ instance = NoInstance
  /\ problem_data = NoData
  /\ lp = NoLP
  /\ tableau = << >> /\ iteration_count = 0 /\ result = NoResult
  /\ ufl_data = NoParse /\ lines = << >> /\ parsed = NoParse
  /\ bodies = 0
  /\ h = H0

Init ==
  /\ fn \in {"algorithm", "analysis", "simple", "generate", "formulate",
             "simplex"}
  /\ InitVars

Next ==
  \/ NextAlgorithm \/ NextAnalysis \/ NextSimple \/ GenerateCuts \/ NextFormulate
  \/ NextSimplex

Spec == Init /\ [][Next]_vars

\* The instance is constructed and formulated, nothing else runs
InitFormulate == Init /\ fn = "formulate"
SpecFormulate == InitFormulate /\ [][NextFormulate]_vars

\* A Simplex is constructed and solved, nothing else runs
InitSimplex == Init /\ fn = "simplex"
SpecSimplex == InitSimplex /\ [][NextSimplex]_vars

\* An instance file is generated and parsed, nothing else runs
InitInstanceFile == fn = "instance_file" /\ InitVars
SpecInstanceFile == InitInstanceFile /\ [][NextInstanceFile]_vars

\* Every call into the solver returns and the interpreter keeps running the
\* driver: a step that is possible is eventually taken.
FairSpec == Spec /\ WF_vars(Next)

(* ============================== properties ============================== *)

\* control has left the driver, by a return or by an exception
Terminated == pc \in {"returned", "raised"}

C3_InfeasibleReturnsOneRecord ==
  (fn = "algorithm" /\ Terminated /\ status = Infeasible /\ sol = None) =>
     /\ pc = "returned"
     /\ Len(tot_stats) = 1
     /\ tot_stats[1].status = Infeasible
     /\ bodies = 0 /\ rows = {}

\* the records solve_problem held when the first CplexError occurred
StatsAtFirstFailure == IF h.readFailed THEN h.readStats ELSE h.failStats

C5_RejectedCandidateRolledBack ==
  [][ ( /\ fn = "algorithm" /\ pc = "judge"
        /\ \/ current_status # "optimal"
           \/ current_sol > optimal_sol + NUMERICAL_TOLERANCE
        /\ ~(h'.failed) )
      =>
      ( /\ CutName(cut_mode, iteration, ci) \in rows
        /\ rows' = rows \ {CutName(cut_mode, iteration, ci)}
        /\ rows' = h.rowsBefore
        /\ sol' = sol
        /\ cuts_added_this_iteration' = cuts_added_this_iteration
        /\ num_total_cuts' = num_total_cuts
        /\ ci' = ci + 1
        /\ (ci + 1 < Len(cuts_to_process) => pc' = "add") ) ]_vars

\* C5 witness: a cut was just rejected and the next candidate is about to be
\* added
C5_Witness ==
  /\ fn = "algorithm" /\ pc = "add" /\ ci >= 1
  /\ h.lastReject = CutName(cut_mode, iteration, ci - 1)
  /\ rows = h.rowsBefore

\* C6: when every candidate of an iteration was rolled back, the iteration
\* ends the run as STALLED: its record is appended, no further iteration
\* starts, and the relaxation has the rows it had when the iteration began.
C6_AllRolledBackStalls ==
  [][ ( fn = "algorithm" /\ pc = "endfor" /\ cuts_added_this_iteration = 0 )
      =>
      ( /\ pc' = "returned" /\ stop' = "STALLED"
        /\ Len(tot_stats') = Len(tot_stats) + 1
        /\ tot_stats'[Len(tot_stats')].iterations = iteration
        /\ rows = h.rowsAtStart /\ rows' = rows
        /\ bodies' = bodies ) ]_vars

\* C6 witness: two candidates were tried and rolled back, the run stalled
C6_Witness ==
  /\ fn = "algorithm" /\ pc = "returned" /\ stop = "STALLED"
  /\ ci >= 2 /\ ci = Len(cuts_to_process)
  /\ cuts_added_this_iteration = 0

\* C7: an iteration that finds no fractional row ends the run without adding
\* a cut; when this is the first iteration (the initial relaxation is
\* integral), or the loop is never entered, solve_problem returns exactly
\* record 0, with n_cuts = 0.
C7_NoCandidateEndsRun ==
  /\ (fn = "algorithm" /\ bodies >= 1 /\ h.fracRows = 0) =>
        /\ pc = "returned" /\ stop = "NO_CUTS"
        /\ rows = h.rowsAtStart
        /\ Len(tot_stats) = bodies
  /\ (fn = "algorithm" /\ pc = "returned" /\ Len(tot_stats) >= 1 /\
      (bodies = 0 \/ (bodies = 1 /\ h.fracRows = 0))) =>
        /\ Len(tot_stats) = 1
        /\ tot_stats[1].iterations = 0 /\ tot_stats[1].n_cuts = 0
        /\ rows = {}

\* C7 witness: the first iteration found no fractional row
C7_Witness ==
  /\ fn = "algorithm" /\ pc = "returned" /\ stop = "NO_CUTS"
  /\ bodies = 1 /\ h.fracRows = 0

\* C8: an iteration is started only when the relative gap is above
\* THRESHOLD_GAP, and once the gap is not above it at the head of the loop the
\* run ends without another cut.
C8_IterationsOnlyWithOpenGap ==
  /\ []( (fn = "algorithm" /\ pc \in {"add", "solve", "judge", "endfor"})
           => h.gapAtStart )
  /\ [][ ( fn = "algorithm" /\ pc = "loop" /\ ~GapOpen(sol, optimal_sol) )
         => ( pc' = "returned" /\ rows' = rows /\ bodies' = bodies
              /\ tot_stats' = tot_stats ) ]_vars

\* C8 witness: the run ended after an iteration because of the gap alone
C8_Witness ==
  /\ fn = "algorithm" /\ pc = "returned" /\ stop = "LOOP_EXIT" /\ bodies >= 1
  /\ ~GapOpen(sol, optimal_sol)
  /\ LoopGuardNoGap(total_time, num_total_cuts, sol, optimal_sol, status,
                    iteration)

\* relative_gap a <= relative_gap b; the records of one run have one optimum
\* and so one denominator
RelGapLeq(a, b) ==
  IF a.den = b.den THEN a.num <= b.num ELSE a.num * b.den <= b.num * a.den

C10_TimeLimitInSeconds ==
  ( /\ fn = "algorithm" /\ pc = "returned" /\ stop = "LOOP_EXIT"
    /\ num_total_cuts <= MAX_TOTAL_CUTS /\ GapOpen(sol, optimal_sol)
    /\ status = "optimal" /\ iteration <= MAX_ITERATIONS )
  => total_time > TIME_LIMIT * MS_PER_SECOND

\* C11: three consecutive iterations that leave the objective unchanged end
\* the run as STALLED at once, also when each of them counted a cut as added.
\* In the record list these are four successive records with one lp_solution;
\* analysis/gomory.py counts them in consecutive_same_solutions.
C11_ThreeUnchangedIterationsStall ==
  /\ fn = "algorithm" =>
       \A k \in 1..(Len(tot_stats) - 3) :
          ( /\ tot_stats[k + 1].lp_solution = tot_stats[k].lp_solution
            /\ tot_stats[k + 2].lp_solution = tot_stats[k].lp_solution
            /\ tot_stats[k + 3].lp_solution = tot_stats[k].lp_solution )
          => ( pc = "returned" /\ stop = "STALLED" /\ Len(tot_stats) = k + 3 )
  /\ (fn = "analysis" /\ consecutive_same_solutions >= 3) => pc = "returned"

\* the candidates of the running iteration are in non-increasing order of
\* violation
SortedByViolation ==
  \A i \in 1..(Len(cuts_to_process) - 1) :
     cuts_to_process[i].violation >= cuts_to_process[i + 1].violation

\* C12: in every iteration the candidates are tried in non-increasing order of
\* violation and at most MAX_CUTS_PER_ITERATION of them are added and
\* re-solved, so the relaxation grows by at most that many rows per iteration.
C12_AtMostCapTriedInOrder ==
  fn = "algorithm" =>
     /\ SortedByViolation
     /\ (pc \in {"solve", "judge"} => ci + 1 <= MAX_CUTS_PER_ITERATION)
     /\ Cardinality(rows \ h.rowsAtStart) <= MAX_CUTS_PER_ITERATION

\* C13: once solve_problem holds the relaxation session, every way out of it
\* (loop exit, non-optimal initial relaxation, CplexError, any other
\* exception) closes the session; the session is open whenever a solve, an add
\* or a delete is due, and nothing changes the relaxation after it was closed.
\* The same for the reference ILP session of determine_optimal.
C13_SessionsClosedOnEveryExit ==
  /\ []( (fn = "algorithm" /\ Terminated) =>
            (session # "open" /\ ilp_session # "open") )
  /\ []( (fn = "algorithm" /\ Terminated /\ optimal_sol # None) =>
            session = "closed" )
  /\ []( (fn = "algorithm" /\
          pc \in {"initial", "loop", "add", "solve", "judge", "endfor"}) =>
            session = "open" )
  /\ []( (fn = "algorithm" /\ pc = "reference") => ilp_session = "open" )
  /\ []( (fn = "algorithm" /\ pc \notin {"start", "reference"}) =>
            ilp_session = "closed" )
  /\ [][ session = "closed" => (session' = "closed" /\ rows' = rows) ]_vars
  /\ [][ ilp_session = "closed" => ilp_session' = "closed" ]_vars

\* C13 witness: an exception other than CplexError left solve_problem after a
\* cut had been added to the relaxation
C13_Witness ==
  /\ fn = "algorithm" /\ pc = "raised" /\ stop = "IndexError"
  /\ rows # {}
  /\ session = "closed" /\ ilp_session = "closed"

FullTableau(i, j) ==
  IF j <= Len(Triangle.c) THEN tableau_rows_float[i][j]
  ELSE ReportedBasis.binv[i][j - Len(Triangle.c)]

\* cost of column j (0 for a slack)
FullCost(j) == IF j <= Len(Triangle.c) THEN Triangle.c[j] ELSE 0

\* The reported basis is an optimal basis of the relaxation of Triangle: binv is
\* the inverse of the basis matrix, the basic solution is within the bounds,
\* and no reduced cost is negative.
OptimalBasis ==
  LET m == Len(Triangle.A)
      n == Len(Triangle.c)
      den == ReportedBasis.den
  IN /\ \A i \in 1..m, k \in 1..m :
          FullTableau(i, ReportedBasis.head[k]) = IF i = k THEN den ELSE 0
     /\ \A i \in 1..m :
          /\ BasicValue(i) >= 0
          /\ (ReportedBasis.head[i] <= n => BasicValue(i) <= den)
     /\ \A j \in 1..(n + m) :
          den * FullCost(j) >=
            SumTo([i \in 1..m |->
                     FullCost(ReportedBasis.head[i]) * FullTableau(i, j)], m)

\* the 0/1 vector x satisfies the cut:  sum coeffs[k] * x[indices[k]] >= rhs
\* for sense 'G', <= rhs for sense 'L'
CutHolds(cut, x) ==
  LET lhs == SumTo([k \in 1..Len(cut.indices) |->
                      cut.coeffs[k] * x[cut.indices[k]]], Len(cut.indices))
  IN IF cut.sense = "G" THEN lhs >= cut.rhs ELSE lhs <= cut.rhs

\* C15: every cut the GFC or the GMI generator builds from an optimal tableau
\* is satisfied by every 0/1 point that satisfies the original UFL
\* constraints.
C15_GeneratedCutsKeepIntegerPoints ==
  (fn = "generate" /\ pc = "returned" /\ OptimalBasis) =>
     \A k \in 1..Len(generated_cuts) :
        \A x \in [1..Len(Triangle.c) -> {0, 1}] :
           Feasible(Triangle.A, Triangle.b, x) => CutHolds(generated_cuts[k], x)

CandidatesOf(kind) ==
  Cardinality({i \in 1..Len(cuts_to_process) : cuts_to_process[i].kind = kind})

\* C17: in cut mode 'BEST' the candidate list of an iteration holds every cut
\* the GMI generator returned and every cut the GFC generator returned,
\* whatever the lengths of the two lists, and building it never raises.
C17_BestModeKeepsAllCuts ==
  (fn = "algorithm" /\ cut_mode = "BEST" /\ bodies >= 1) =>
     /\ stop # "IndexError"
     /\ (h.len_gmi + h.len_gfc > 0 => stop # "NO_CUTS")
     /\ (pc \in {"add", "solve", "judge", "endfor"} =>
           /\ CandidatesOf("GMI") = h.len_gmi
           /\ CandidatesOf("GFC") = h.len_gfc)

\* the 0/1 vectors over n columns
BinaryVectors(n) == [1..n -> {0, 1}]

\* every customer is assigned to exactly one facility
EveryCustomerAssignedOnce(p, r, x) ==
  \A v \in 0..(r - 1) :
     SumTo([k \in 1..p |-> x[Col(p, r, k - 1, v)]], p) = 1

\* no customer is assigned to a closed facility
AssignedOnlyToOpen(p, r, x) ==
  \A u \in 0..(p - 1), v \in 0..(r - 1) : x[Col(p, r, u, v)] <= x[u + 1]

\* C18: for every instance of p facilities and r customers get_problem_data
\* returns c of length p + p*r and (A, b) of 2r + p*r rows; a 0/1 vector
\* satisfies A x <= b exactly when every customer is assigned once and only to
\* open facilities; c holds fixed_costs[u] at index u and
\* assignment_costs[v][u] at index p + u*r + v; maximize negates c and leaves
\* A and b as they are without it.
C18_FormulationMatchesUFL ==
  (fn = "formulate" /\ pc = "returned") =>
     LET p == instance.num_facilities
         r == instance.num_customers
         d == problem_data
         sign == IF d.maximize THEN 0 - 1 ELSE 1
         plain == get_problem_data(p, r, instance.fixed_costs,
                                   instance.assignment_costs, FALSE)
     IN /\ Len(d.c) = p + p * r
        /\ Len(d.A) = 2 * r + p * r
        /\ Len(d.b) = 2 * r + p * r
        /\ \A i \in 1..Len(d.A) : Len(d.A[i]) = p + p * r
        /\ \A x \in BinaryVectors(p + p * r) :
              Feasible(d.A, d.b, x) <=>
                 (EveryCustomerAssignedOnce(p, r, x) /\ AssignedOnlyToOpen(p, r, x))
        /\ \A u \in 0..(p - 1) : d.c[u + 1] = sign * instance.fixed_costs[u + 1]
        /\ \A u \in 0..(p - 1), v \in 0..(r - 1) :
              d.c[Col(p, r, u, v)] = sign * instance.assignment_costs[v + 1][u + 1]
        /\ d.A = plain.A /\ d.b = plain.b
        /\ d.maximize => \A j \in 1..Len(d.c) : d.c[j] = 0 - plain.c[j]

\* a maximising formulation of the largest instance has been returned
C18_Witness ==
  /\ fn = "formulate" /\ pc = "returned"
  /\ problem_data.maximize
  /\ instance.num_facilities = MaxFacilities
  /\ instance.num_customers = MaxCustomers
  /\ Len(problem_data.A) = 2 * MaxCustomers + MaxFacilities * MaxCustomers

\* the cost arrays handed to the constructor do not match p and r
Mismatched(m) ==
  \/ Len(m.fixed_costs) # m.num_facilities
  \/ Len(m.assignment_costs) # m.num_customers
  \/ \E i \in 1..Len(m.assignment_costs) :
        Len(m.assignment_costs[i]) # m.num_facilities

\* C19: building or formulating an instance whose cost arrays do not match p
\* and r fails with a validation error before any relaxation exists: no
\* session is opened, nothing is solved, no record is produced and no
\* formulation is returned.
C19_MismatchFailsBeforeAnyRelaxation ==
  (fn = "formulate" /\ instance # NoInstance /\ Mismatched(instance)) =>
     /\ pc = "raised"
     /\ stop \in {"ValueError", "AssertionError"}
     /\ session = "none" /\ ilp_session = "none"
     /\ sol = None /\ status = "none"
     /\ tot_stats = << >>
     /\ problem_data = NoData

\* an instance with one assignment row of the wrong length was refused
C19_Witness ==
  /\ fn = "formulate" /\ pc = "raised" /\ stop = "ValueError"
  /\ Len(instance.fixed_costs) = instance.num_facilities
  /\ Len(instance.assignment_costs) = instance.num_customers
  /\ \E i \in 1..Len(instance.assignment_costs) :
        Len(instance.assignment_costs[i]) # instance.num_facilities

\* the relative_gap of a record is at most THRESHOLD_GAP
RecordedGapClosed(rec) ==
  THRESHOLD_GAP_INV * rec.relative_gap.num <= rec.relative_gap.den

\* the record of the objective the loop guard is about to test
LastRecord == tot_stats[Len(tot_stats)]

\* C20: the relative_gap of a record is the quantity the controller compares
\* with THRESHOLD_GAP, for every reference optimum, 0 included: whenever the
\* loop guard tests the objective of the last record, the recorded gap is at
\* most the threshold exactly when the guard takes the gap as closed.
C20_RecordedGapIsControllersGap ==
  /\ ( /\ fn = "algorithm" /\ pc = "loop"
       /\ tot_stats # << >> /\ sol # None /\ LastRecord.lp_solution = sol )
       => (RecordedGapClosed(LastRecord) <=> ~GapOpen(sol, optimal_sol))
  /\ ( /\ fn = "analysis" /\ pc = "loop"
       /\ tot_stats # << >> /\ sol # None /\ LastRecord.lp_solution = sol
       /\ ~rel_gap.inf )
       => (RecordedGapClosed(LastRecord) <=> ~RelGapAbove(rel_gap))

\* an iteration has just ended: its record is appended and control is at the
\* loop guard, or the run ended as stalled or by the guard
IterationEnded ==
  /\ fn = "algorithm" /\ bodies >= 1
  /\ \/ pc = "loop"
     \/ pc = "returned" /\ stop \in {"STALLED", "LOOP_EXIT"}

\* C21: at the end of every iteration num_total_cuts is the number of cut rows
\* in the relaxation; the record of the iteration has n_cuts = num_total_cuts
\* and n_constraints = original rows + n_cuts; n_cuts never decreases along
\* the record list.
C21_CutCountMatchesRows ==
  /\ IterationEnded =>
       /\ Cardinality(rows) = num_total_cuts
       /\ tot_stats[Len(tot_stats)].n_cuts = num_total_cuts
  /\ fn = "algorithm" =>
       /\ \A k \in 1..Len(tot_stats) :
             tot_stats[k].n_constraints = n_rows + tot_stats[k].n_cuts
       /\ \A k \in 1..(Len(tot_stats) - 1) :
             tot_stats[k].n_cuts <= tot_stats[k + 1].n_cuts

\* an iteration kept one candidate and rolled another back
C21_Witness ==
  /\ IterationEnded /\ pc = "loop"
  /\ Len(cuts_to_process) = 2
  /\ num_total_cuts = 1 /\ Cardinality(rows) = 1
  /\ tot_stats[Len(tot_stats)].n_constraints = n_rows + 1

\* the row of the reported basis in which column j is basic
RowOf(j) ==
  CHOOSE i \in 1..Len(ReportedBasis.head) : ReportedBasis.head[i] = j

\* the nonbasic columns of the reported basis, slacks included
NonBasicColumns ==
  {j \in 1..(Len(Triangle.c) + Len(Triangle.A)) :
     \A i \in 1..Len(ReportedBasis.head) : ReportedBasis.head[i] # j}

\* the coefficient the cut gives to column j (0 without a term)
CoeffOf(cut, j) ==
  IF \E k \in 1..Len(cut.indices) : cut.indices[k] = j
  THEN cut.coeffs[CHOOSE k \in 1..Len(cut.indices) : cut.indices[k] = j]
  ELSE 0

\* the generator has run on an optimal basis
Generated(kind) ==
  fn = "generate" /\ pc = "returned" /\ cut_mode = kind /\ OptimalBasis

\* C24: for every candidate the tableau row the generator reads is the row of
\* the basis in which the candidate is basic, whatever the order of the rows
\* of the basis, slacks before structural variables included.
C24_CandidateRowIsItsBasisRow ==
  (fn = "generate" /\ pc = "returned" /\ OptimalBasis) =>
     \A k \in 1..Len(generated_cuts) :
        ReportedBasis.head[generated_cuts[k].row] = generated_cuts[k].var

\* C22: the fractional cut of a candidate with fractional part f_i has sense
\* >=, right-hand side f_i and exactly one term f_j for each nonbasic variable
\* whose coefficient in the row of the candidate has fractional part f_j above
\* the tolerance (values in units of 1/den).
C22_FractionalCutTerms ==
  Generated("GFC") =>
     \A k \in 1..Len(generated_cuts) :
        LET cut == generated_cuts[k]
            den == ReportedBasis.den
            i   == RowOf(cut.var)
        IN /\ cut.sense = "G"
           /\ cut.rhs = FracNum(BasicValue(i), den)
           /\ cut.rhs > 0 /\ cut.rhs < den
           /\ \A j \in NonBasicColumns :
                 CoeffOf(cut, j) = FracNum(FullTableau(i, j), den)
           /\ \A n \in 1..Len(cut.indices) :
                 /\ cut.indices[n] \in NonBasicColumns
                 /\ cut.coeffs[n] > 0 /\ cut.coeffs[n] < den

\* the mixed-integer coefficient of a nonbasic column with tableau entry a in
\* a row of fractional part f_i, multiplied by den * (den - f_i)
MixedIntegerCoeff(integer, a, f_i, den) ==
  IF integer
  THEN IF FracNum(a, den) <= f_i THEN FracNum(a, den) * (den - f_i)
                                 ELSE f_i * (den - FracNum(a, den))
  ELSE IF a >= 0 THEN a * (den - f_i) ELSE f_i * (0 - a)

\* C23: the mixed-integer cut of a candidate gives every nonbasic integer
\* variable the coefficient f_j or f_i/(1-f_i)*(1-f_j), every nonbasic slack
\* the coefficient a_ij or f_i/(1-f_i)*(-a_ij) of a continuous variable, and
\* has right-hand side f_i.
C23_MixedIntegerCutTerms ==
  Generated("GMI") =>
     \A k \in 1..Len(generated_cuts) :
        LET cut == generated_cuts[k]
            den == ReportedBasis.den
            i   == RowOf(cut.var)
            f_i == FracNum(BasicValue(i), den)
        IN /\ cut.sense = "G"
           /\ cut.rhs = f_i * (den - f_i)
           /\ \A j \in NonBasicColumns :
                 CoeffOf(cut, j) =
                   MixedIntegerCoeff(j <= Len(Triangle.c),
                                     FullTableau(i, j), f_i, den)

\* the loop guard holds after at least one iteration: the generators are about
\* to read basis, values and tableau of the session
GeneratorsAboutToRead ==
  /\ fn = "algorithm" /\ pc = "loop" /\ bodies >= 1
  /\ LoopGuard(total_time, num_total_cuts, sol, optimal_sol, status, iteration)

\* C25: whenever an iteration starts and the generators read the basis, the
\* values and the tableau, the most recent solve of the relaxation was made on
\* exactly the rows the relaxation has now, also when the last candidate of
\* the previous iteration was rolled back.
C25_GeneratorsReadCurrentRelaxation ==
  GeneratorsAboutToRead => h.solvedRows = rows

\* C26: every record written inside the loop, once a re-solve has been
\* accepted, carries the objective of the last accepted re-solve as
\* lp_solution together with the is_integer and the status of that same
\* re-solve.
C26_RecordIsOfLastAcceptedResolve ==
  (IterationEnded /\ h.lastAccepted # << >>) =>
     /\ LastRecord.lp_solution = h.lastAccepted[1]
     /\ LastRecord.is_integer = h.lastAccepted[2]
     /\ LastRecord.status = h.lastAccepted[3]

\* C27: the number of cuts in the relaxation never exceeds MAX_TOTAL_CUTS.
C27_TotalCutsWithinLimit ==
  fn = "algorithm" => num_total_cuts <= MAX_TOTAL_CUTS

\* the solution x, in units of 1/den, satisfies the cut
SolutionSatisfies(cut, x, den) ==
  LET lhs == SumTo([k \in 1..Len(cut.indices) |->
                      cut.coeffs[k] * x[cut.indices[k]]], Len(cut.indices))
  IN IF cut.sense = "G" THEN lhs >= cut.rhs * den ELSE lhs <= cut.rhs * den

C29_SimplexReportsOptimalOnlyWhenOptimal ==
  fn = "simplex" =>
     /\ iteration_count <= SimplexMaxIterations
     /\ pc = "returned" =>
          /\ result.iterations = iteration_count
          /\ result.optimal => _is_optimal(tableau, Standard.c)
          /\ stop = "UNBOUNDED" => result.unbounded /\ ~result.optimal

\* C30: the file generate_ufl_instance writes is parsed back by
\* parse_ufl_instance, without raising, to the numbers of facilities and
\* customers and the costs it was written from.
C30_WrittenInstanceParsesBack ==
  (fn = "instance_file" /\ pc \in {"returned", "raised"}) =>
     /\ ~parsed.raised
     /\ parsed = ufl_data

====
